---- MODULE Spec2Model ----
(***************************************************************************)
(* Model of the Bing-chat-clone notebook (src/08-BingChatClone.ipynb).     *)
(*                                                                         *)
(* The notebook builds a ReAct agent executor around one custom tool,      *)
(* MyBingSearch, runs it inside a retry loop                               *)
(*     for i in range(N): try: response = agent_executor.run(QUESTION);    *)
(*                             break                                       *)
(*                        except Exception as e: response = str(e)         *)
(* and displays the result with printmd.  The executor is created by       *)
(* initialize_agent(tools, llm, agent=ZERO_SHOT_REACT_DESCRIPTION, ...)    *)
(* with no max_iterations, early_stopping_method or handle_parsing_errors  *)
(* argument, so the executor's defaults apply (15 iterations, "force",     *)
(* parsing errors raised).  The chat model and the search backend are the  *)
(* environment: their answers are chosen nondeterministically.             *)
(*                                                                         *)
(* Text is a sequence of tokens.  A token is either a piece of plain text  *)
(* (one character where the character matters, e.g. "$") or a citation     *)
(* <sup><a href="url" target="_blank">[n]</a></sup>.  Queries and links    *)
(* are numbered: the backend answers query q with the link q, and link 0   *)
(* is a link that no search returns.                                       *)
(***************************************************************************)
EXTENDS Integers, Sequences, FiniteSets, TLC

VARIABLES
    N,            \* range(N) of the retry loop of the cell being run
    i,            \* loop variable of the retry loop
    pc,           \* "for" | "plan" | "tool" | "exited" | "printed"
    response,     \* the notebook variable `response` (Unbound before any assignment)
    steps,        \* intermediate_steps of the current/most recent run
    iterations,   \* the executor's iteration counter of that run
    pending,      \* the action handed to the tool while the search is outstanding
    calls,        \* backend calls made by that run: [query, num_results]
    llmCalls,     \* model requests made by that run
    errs,         \* errs[j]: the exception raised by attempt j, or "none"
    outcome,      \* "Running" | "Done" (loop left by break) | "Failed" (range exhausted)
    rendered,     \* what printmd displayed (Unbound before)
    odd,          \* irregular model steps of the run (duplicate query, unknown tool)
    prompt,       \* the text of the latest model request
    toolResult    \* outcome of the latest direct invocation of the tool object

vars == <<N, i, pc, response, steps, iterations, pending, calls, llmCalls,
          errs, outcome, rendered, odd, prompt, toolResult>>

----------------------------------------------------------------------------
(* Bounds of the environment *)

\* irregular steps (repeated query, unregistered tool name) the model may
\* take in one run; regular steps (a new query) are not bounded
MaxOdd == 1

\* direct invocations of the tool object: backend calls made and queries used
MaxToolCalls == 4
MaxToolQuery == 3

----------------------------------------------------------------------------
(* Program constants *)

\* tools = [MyBingSearch(k=5)]
k == 5

\* initialize_agent(...) is given no max_iterations: the executor default
MaxIterations == 15

\* for i in range(2) / for i in range(3)
RetryBudgets == {2, 3}

\* MyBingSearch.name, the only entry of `tools`
ToolNames == {"@bing"}

\* a tool name the model may emit that is not registered
OtherTool == "@google"

\* "You can and should perform up to 5 searches in a single conversation turn"
PromptMaxSearches == 5

----------------------------------------------------------------------------
(* Text *)

Tok(c) == [kind |-> "ch", ch |-> c, n |-> 0, href |-> 0]
Cite(idx, link) == [kind |-> "cite", ch |-> "", n |-> idx, href |-> link]

Unbound == <<Tok("<unbound>")>>

\* str(e) for the exceptions a run can raise
StrOf(e) ==
    CASE e = "ParseErr"  -> <<Tok("Could not parse LLM output")>>
      [] e = "SearchErr" -> <<Tok("search backend error")>>
      [] e = "ModelErr"  -> <<Tok("model request error")>>

Exceptions == {"ParseErr", "SearchErr", "ModelErr"}

\* the executor's answer when it stops on the iteration limit
StoppedMsg == <<Tok("Agent stopped due to iteration limit or time limit.")>>

\* final answers the model may give
AnswerTexts ==
    { <<Tok("a"), Tok("$"), Tok("7"), Cite(1, 1)>>,
      <<Tok("a"), Cite(1, 0)>>,
      <<Tok("a"), Cite(1, 2)>>,
      <<Tok("U"), Tok("S"), Tok("D"), Tok(" "), Tok("7")>>,
      <<Tok("Could not parse LLM output")>> }

USDTokens == <<Tok("U"), Tok("S"), Tok("D"), Tok(" ")>>

RECURSIVE Replace(_)
\* string.replace("$", "USD ")
Replace(s) ==
    IF s = <<>> THEN <<>>
    ELSE (IF Head(s).kind = "ch" /\ Head(s).ch = "$" THEN USDTokens ELSE <<Head(s)>>)
         \o Replace(Tail(s))

NotCite(t) == t.kind # "cite"

\* printmd that drops the citation markup
printmdNoCites(string) == SelectSeq(Replace(string), NotCite)

\* printmd without the replacement
printmdIdentity(string) == string

\* printmd(string): display(Markdown(string.replace("$","USD ")))
printmd(string) == Replace(string)

----------------------------------------------------------------------------
(* The agent executor and the tool *)

NoAction == [tool |-> "", input |-> 0]

\* a log that puts the new entry in front
ExtendFront(log, entry) == <<entry>> \o log

\* intermediate_steps.extend(...): the step is added at the end of the log
Extend(log, entry) == Append(log, entry)

\* a run that goes on with the scratchpad of the run before
KeepSteps(old) == old

\* a run starts with intermediate_steps = []
FreshSteps(old) == <<>>

\* the limit test off by one
ShouldContinueLate(it) == it <= MaxIterations

\* while self._should_continue(iterations, ...)
ShouldContinue(it) == it < MaxIterations

\* a lookup that accepts every tool name
IsRegisteredAny(tool) == TRUE

\* agent_action.tool in name_to_tool_map
IsRegistered(tool) == tool \in ToolNames

\* observation of an unregistered tool name
InvalidToolObs == [kind |-> "invalid_tool", links |-> <<>>]

\* MyBingSearch._run: bing.results(query, num_results=self.k), returned as is
MyBingSearch_run(query) == [kind |-> "results", links |-> <<query>>]

BackendCall(query) == [query |-> query, num_results |-> k]

\* queries already sent to @bing in this run
UsedQueries == { steps[j].input : j \in { x \in 1..Len(steps) : steps[x].tool \in ToolNames } }

\* a query not searched before in this run
FreshQuery == Cardinality(UsedQueries) + 1

\* earlier queries the model may repeat
RepeatableQueries == IF UsedQueries = {} THEN {} ELSE {FreshQuery - 1}


----------------------------------------------------------------------------
(* The prompt *)

\* QUESTION = "in learn.microsoft.com/, how should I comment when coding in x++ ?"
QUESTION == "in learn.microsoft.com/, how should I comment when coding in x++ ?"

\* tools = [MyBingSearch(k=5)]: name and description of every tool
Tools == << [name |-> "@bing",
             description |-> "useful when the questions includes the term: @bing."] >>

NoObs == [kind |-> "", links |-> <<>>]

\* a part of the prompt text
Line(tag, text, num, obs) == [tag |-> tag, s |-> text, d |-> "", n |-> num, obs |-> obs]

\* the line of one tool: its name and its description
ToolLine(t) == [Line("tool", t.name, 0, NoObs) EXCEPT !.d = t.description]

\* a tool list that leaves the descriptions out
ToolLinesNamesOnly(tools) ==
    [x \in 1..Len(tools) |-> Line("tool", tools[x].name, 0, NoObs)]

RECURSIVE ToolLines(_)
\* "@bing: useful when the questions includes the term: @bing."
ToolLines(tools) ==
    IF tools = <<>> THEN <<>>
    ELSE <<ToolLine(Head(tools))>> \o ToolLines(Tail(tools))

\* the text of one step of the scratchpad, ending with the cue for the next
StepLines(step) ==
    << Line("Action", step.tool, 0, NoObs),
       Line("Action Input", "", step.input, NoObs),
       Line("Observation", "", 0, step.obs),
       Line("Thought", "", 0, NoObs) >>

RECURSIVE ScratchpadNewestFirst(_)
\* a transcript that lists the latest step first
ScratchpadNewestFirst(log) ==
    IF log = <<>> THEN <<>>
    ELSE ScratchpadNewestFirst(Tail(log)) \o StepLines(Head(log))

RECURSIVE Scratchpad(_)
\* {agent_scratchpad}: the steps of the run, oldest first
Scratchpad(log) ==
    IF log = <<>> THEN <<>>
    ELSE StepLines(Head(log)) \o Scratchpad(Tail(log))

\* the template of the agent with {input} and {agent_scratchpad} filled in
Assemble(question, log, tools) ==
    << Line("prefix", "BING_PROMPT_PREFIX", 0, NoObs),
       Line("tools", "## You have access to the following tools:", 0, NoObs) >>
    \o ToolLines(tools)
    \o << Line("format", "Use the following format:", 0, NoObs),
          Line("begin", "Begin!", 0, NoObs),
          Line("Question", question, 0, NoObs),
          Line("Thought", "", 0, NoObs) >>
    \o Scratchpad(log)

\* no direct invocation of the tool object so far
NoResult == [via |-> "", query |-> 0, raises |-> "", obs |-> NoObs]

\* a tool call that is not waited for
NoAwaitTool(action) == "plan"

\* tool.run(...) is a synchronous call: the executor waits for its return
AwaitTool(action) == "tool"

----------------------------------------------------------------------------
(* The retry loop *)

\* a loop that gives up one attempt early
HasNextShort(idx, budget) == idx + 2 < budget

\* a loop that makes one attempt too many
HasNextLong(idx, budget) == idx + 1 <= budget

\* range(N) has an element after i
HasNext(idx, budget) == idx + 1 < budget

\* a retry that never advances
NextIndexStuck(idx) == idx

\* the for statement binds i to the next element
NextIndex(idx) == idx + 1

\* an except branch that drops the message
ExceptResponseEmpty(e) == <<>>

\* an except branch that reports one fixed message
ExceptResponseFixed(e) == StrOf("ParseErr")

\* except Exception as e: response = str(e)
ExceptResponse(e) == StrOf(e)

\* a loop without the break
AfterSuccessNoBreak(idx, budget) == IF HasNext(idx, budget) THEN "for" ELSE "exited"

\* response = agent_executor.run(QUESTION); break: the loop is left
AfterSuccess(idx, budget) == "exited"

\* the except branch of the retry loop, entered when the run raises e
Raise(e) ==
    /\ response' = ExceptResponse(e)
    /\ errs' = [errs EXCEPT ![i] = e]
    /\ IF HasNext(i, N)
         THEN /\ i' = NextIndex(i)
              /\ pc' = "for"
              /\ outcome' = "Running"
         ELSE /\ i' = i
              /\ pc' = "exited"
              /\ outcome' = "Failed"

Init ==
    /\ N \in RetryBudgets
    /\ i = 0
    /\ pc = "for"
    /\ response = Unbound
    /\ steps = <<>>
    /\ iterations = 0
    /\ pending = NoAction
    /\ calls = <<>>
    /\ llmCalls = 0
    /\ errs = [j \in 0..3 |-> "none"]
    /\ outcome = "Running"
    /\ rendered = Unbound
    /\ odd = 0
    /\ prompt = <<>>
    /\ toolResult = NoResult

\* agent_executor.run(QUESTION) is entered: a new run with its own
\* intermediate_steps and iteration counter
RunStart ==
    /\ pc = "for"
    /\ pc' = "plan"
    /\ steps' = FreshSteps(steps)
    /\ iterations' = 0
    /\ calls' = <<>>
    /\ llmCalls' = 0
    /\ odd' = 0
    /\ pending' = NoAction
    /\ UNCHANGED <<prompt, toolResult, N, i, response, errs, outcome, rendered>>

\* the model answers with "Action: @bing / Action Input: query"
PlanSearch(query, isOdd) ==
    /\ pc = "plan"
    /\ ShouldContinue(iterations)
    /\ llmCalls' = llmCalls + 1
    /\ odd' = odd + (IF isOdd THEN 1 ELSE 0)
    /\ IF IsRegistered("@bing")
         THEN /\ pending' = [tool |-> "@bing", input |-> query]
              /\ pc' = AwaitTool(pending')
              /\ UNCHANGED <<steps, iterations>>
         ELSE /\ steps' = Extend(steps, [tool |-> "@bing", input |-> query, obs |-> InvalidToolObs])
              /\ iterations' = iterations + 1
              /\ pc' = "plan"
              /\ UNCHANGED pending
    /\ prompt' = Assemble(QUESTION, steps, Tools)
    /\ UNCHANGED <<toolResult, N, i, response, calls, errs, outcome, rendered>>

PlanFreshSearch == PlanSearch(FreshQuery, FALSE)

PlanRepeatedSearch ==
    /\ odd < MaxOdd
    /\ \E q \in RepeatableQueries : PlanSearch(q, TRUE)

\* the model names a tool that is not in `tools`
PlanOtherTool ==
    /\ pc = "plan"
    /\ ShouldContinue(iterations)
    /\ odd < MaxOdd
    /\ llmCalls' = llmCalls + 1
    /\ odd' = odd + 1
    /\ IF IsRegistered(OtherTool)
         THEN /\ pending' = [tool |-> OtherTool, input |-> 0]
              /\ pc' = AwaitTool(pending')
              /\ UNCHANGED <<steps, iterations>>
         ELSE /\ steps' = Extend(steps, [tool |-> OtherTool, input |-> 0, obs |-> InvalidToolObs])
              /\ iterations' = iterations + 1
              /\ pc' = "plan"
              /\ UNCHANGED pending
    /\ prompt' = Assemble(QUESTION, steps, Tools)
    /\ UNCHANGED <<toolResult, N, i, response, calls, errs, outcome, rendered>>

\* tool.run returns: the observation is appended and the loop goes on
ToolReturn ==
    /\ pc = "tool"
    /\ calls' = Append(calls, BackendCall(pending.input))
    /\ steps' = Extend(steps, [tool |-> pending.tool, input |-> pending.input,
                               obs |-> MyBingSearch_run(pending.input)])
    /\ iterations' = iterations + 1
    /\ pending' = NoAction
    /\ pc' = "plan"
    /\ UNCHANGED <<prompt, toolResult, N, i, response, llmCalls, errs, outcome, rendered, odd>>

\* bing.results raises: _run has no handler, the run raises
ToolRaise ==
    /\ pc = "tool"
    /\ calls' = Append(calls, BackendCall(pending.input))
    /\ pending' = NoAction
    /\ Raise("SearchErr")
    /\ UNCHANGED <<prompt, toolResult, N, steps, iterations, llmCalls, rendered, odd>>

\* the model answers with "Final Answer: text": run returns, break
PlanFinish ==
    /\ pc = "plan"
    /\ ShouldContinue(iterations)
    /\ \E text \in AnswerTexts : response' = text
    /\ llmCalls' = llmCalls + 1
    /\ pc' = AfterSuccess(i, N)
    /\ outcome' = "Done"
    /\ prompt' = Assemble(QUESTION, steps, Tools)
    /\ UNCHANGED <<toolResult, N, i, steps, iterations, pending, calls, errs, rendered, odd>>

\* the model's text is neither an action nor a final answer
PlanUnparseable ==
    /\ pc = "plan"
    /\ ShouldContinue(iterations)
    /\ llmCalls' = llmCalls + 1
    /\ Raise("ParseErr")
    /\ prompt' = Assemble(QUESTION, steps, Tools)
    /\ UNCHANGED <<toolResult, N, steps, iterations, pending, calls, rendered, odd>>

\* the model request itself fails
PlanRaise ==
    /\ pc = "plan"
    /\ ShouldContinue(iterations)
    /\ llmCalls' = llmCalls + 1
    /\ Raise("ModelErr")
    /\ prompt' = Assemble(QUESTION, steps, Tools)
    /\ UNCHANGED <<toolResult, N, steps, iterations, pending, calls, rendered, odd>>

\* the iteration limit is reached: early_stopping_method "force"
ForceStop ==
    /\ pc = "plan"
    /\ ~ShouldContinue(iterations)
    /\ response' = StoppedMsg
    /\ pc' = AfterSuccess(i, N)
    /\ outcome' = "Done"
    /\ UNCHANGED <<prompt, toolResult, N, i, steps, iterations, pending, calls, llmCalls, errs, rendered, odd>>

\* the next cell: printmd(response)
Printmd ==
    /\ pc = "exited"
    /\ rendered' = printmd(response)
    /\ pc' = "printed"
    /\ UNCHANGED <<prompt, toolResult, N, i, response, steps, iterations, pending, calls, llmCalls,
                   errs, outcome, odd>>

Next ==
    \/ RunStart
    \/ PlanFreshSearch
    \/ PlanRepeatedSearch
    \/ PlanOtherTool
    \/ ToolReturn
    \/ ToolRaise
    \/ PlanFinish
    \/ PlanUnparseable
    \/ PlanRaise
    \/ ForceStop
    \/ Printmd

Spec == Init /\ [][Next]_vars

\* the model and the backend answer every outstanding call, and the
\* notebook's cells run to their end
FairSpec == Spec /\ WF_vars(Next)

----------------------------------------------------------------------------
(* The tool object on its own: a caller invokes MyBingSearch directly,      *)
(* synchronously (_run) or asynchronously (_arun), with any query.          *)

\* an _arun that hands the query to _run
MyBingSearch_arunDelegating(query) ==
    [raises |-> "", obs |-> MyBingSearch_run(query), backend |-> <<BackendCall(query)>>]

\* MyBingSearch._arun: raise NotImplementedError("This Tool does not support async")
MyBingSearch_arun(query) ==
    [raises |-> "NotImplementedError", obs |-> NoObs, backend |-> <<>>]

\* MyBingSearch._run seen from the caller: one backend call with num_results = k
MyBingSearch_runCall(query) ==
    [raises |-> "", obs |-> MyBingSearch_run(query), backend |-> <<BackendCall(query)>>]

ToolQueries == 1..MaxToolQuery

SyncInvoke ==
    /\ Len(calls) < MaxToolCalls
    /\ \E q \in ToolQueries :
          LET r == MyBingSearch_runCall(q)
          IN  /\ calls' = calls \o r.backend
              /\ toolResult' = [via |-> "_run", query |-> q, raises |-> r.raises, obs |-> r.obs]
    /\ UNCHANGED <<N, i, pc, response, steps, iterations, pending, llmCalls,
                   errs, outcome, rendered, odd, prompt>>

AsyncInvoke ==
    /\ \E q \in ToolQueries :
          LET r == MyBingSearch_arun(q)
          IN  /\ calls' = calls \o r.backend
              /\ toolResult' = [via |-> "_arun", query |-> q, raises |-> r.raises, obs |-> r.obs]
    /\ UNCHANGED <<N, i, pc, response, steps, iterations, pending, llmCalls,
                   errs, outcome, rendered, odd, prompt>>

ToolNext ==
    \/ SyncInvoke
    \/ AsyncInvoke

ToolSpec == Init /\ [][ToolNext]_vars

TypeOK ==
    /\ N \in RetryBudgets
    /\ i \in 0..2
    /\ pc \in {"for", "plan", "tool", "exited", "printed"}
    /\ iterations \in 0..MaxIterations
    /\ outcome \in {"Running", "Done", "Failed"}

----------------------------------------------------------------------------
(* Properties *)

Finished == outcome \in {"Done", "Failed"}

\* links contained in the observations of the run's scratchpad
ObservedLinks ==
    UNION { { steps[j].obs.links[x] : x \in 1..Len(steps[j].obs.links) } : j \in 1..Len(steps) }

IsCite(t) == t.kind = "cite"
IsDollar(t) == t.kind = "ch" /\ t.ch = "$"
CountDollar(s) == Len(SelectSeq(s, IsDollar))

BingSteps == { j \in 1..Len(steps) : steps[j].tool \in ToolNames }

\* C1: every citation in the rendered final answer carries a link that some
\* Observation of the same run's scratchpad contains (no fabricated citation
\* is displayed as a valid link).
C1_NoFabrication ==
    (pc = "printed" /\ outcome = "Done") =>
        \A x \in 1..Len(rendered) :
            IsCite(rendered[x]) => rendered[x].href \in ObservedLinks

\* C2: within one run the search backend is never called twice with the
\* same query (query text including its site: restriction).
C2_NoDuplicateSearch ==
    \A a, b \in 1..Len(calls) : a # b => calls[a].query # calls[b].query

\* C3: the number of Action steps of a run never exceeds the cap of 5
\* searches before the loop forces the final answer.
C3_IterationCap ==
    iterations <= PromptMaxSearches

\* C4 (as stated): when the iteration budget is used up, the run ends in Done
\* with a best-effort answer that the model synthesizes from the Observations
\* collected so far (one more model request, answered with a final answer).
C4_SynthesizedAnswer ==
    (outcome = "Done" /\ iterations = MaxIterations) =>
        (response \in AnswerTexts /\ llmCalls = iterations + 1)

\* C4 (amended): the run is forced to stop exactly when MaxIterations Action
\* steps were executed, never earlier or later; the retry loop is then left
\* by break (Done, never Failed) and the response is the executor's fixed
\* stop message, with no further model request.
C4_ForcedStop ==
    /\ (Finished /\ iterations = MaxIterations) =>
          (outcome = "Done" /\ response = StoppedMsg /\ Len(steps) = MaxIterations
           /\ llmCalls = MaxIterations)
    /\ (response = StoppedMsg) =>
          (outcome = "Done" /\ iterations = MaxIterations /\ Len(steps) = MaxIterations)

C4_Witness ==
    /\ outcome = "Done"
    /\ iterations = MaxIterations
    /\ Cardinality(UsedQueries) = MaxIterations
    /\ response = StoppedMsg

\* C5 (as stated): the session becomes Failed only when every attempt of the
\* retry budget was unparseable.
C5_FailedOnlyUnparseable ==
    outcome = "Failed" => \A j \in 0..(N - 1) : errs[j] = "ParseErr"

\* C5 (amended): the request is retried up to N attempts; the session is
\* Failed only when every one of the N attempts raised an exception (an
\* unparseable response or any other error), and it is Done as soon as an
\* attempt returns, with the response of that attempt: two unparseable
\* responses and a final answer in the third attempt of three end in Done.
C5_RetryBudget ==
    /\ i < N
    /\ outcome = "Failed" => (i = N - 1 /\ \A j \in 0..(N - 1) : errs[j] \in Exceptions)
    /\ outcome = "Done" =>
          /\ errs[i] = "none"
          /\ \A j \in 0..(i - 1) : errs[j] \in Exceptions
          /\ response \in AnswerTexts \cup {StoppedMsg}
    /\ outcome = "Running" => \A j \in 0..(i - 1) : errs[j] \in Exceptions

C5_Witness ==
    /\ N = 3
    /\ errs[0] = "ParseErr"
    /\ errs[1] = "ParseErr"
    /\ i = 2
    /\ outcome = "Done"
    /\ response \in AnswerTexts

\* C6 (as stated): a search call, failing or not, ends with one Observation
\* appended to the scratchpad and the loop back in Thinking.
C6_FailureIsObservation ==
    [][pc = "tool" => (pc' = "plan" /\ Len(steps') = Len(steps) + 1)]_vars

\* C6 (amended): a search backend failure is not recorded as an Observation:
\* it ends the run with an exception that the retry loop catches, response is
\* bound to the error's text, and the question is retried from the start
\* while attempts remain, else the session is Failed.  No Observation of the
\* scratchpad carries an error of the backend.
C6_FailureEndsRun ==
    /\ [](\A j \in BingSteps : steps[j].obs.kind = "results")
    /\ [][(pc = "tool" /\ pc' # "plan") =>
            /\ steps' = steps
            /\ Len(calls') = Len(calls) + 1
            /\ errs'[i] = "SearchErr"
            /\ response' = StrOf("SearchErr")
            /\ IF i + 1 < N
                 THEN pc' = "for" /\ outcome' = "Running" /\ i' = i + 1
                 ELSE pc' = "exited" /\ outcome' = "Failed"]_vars

C6_Witness ==
    /\ Len(calls) = 1
    /\ steps = <<>>
    /\ errs[0] = "SearchErr"
    /\ response = StrOf("SearchErr")
    /\ pc = "for"

\* C7: an Action step naming a tool that is not registered executes no
\* search, appends the invalid-tool Observation, and leaves the run going in
\* Thinking.
C7_UnknownTool ==
    /\ [](/\ \A j \in 1..Len(steps) :
                steps[j].tool \notin ToolNames => steps[j].obs = InvalidToolObs
          /\ pending.tool \in ToolNames \cup {""}
          /\ \A c \in 1..Len(calls) : calls[c].query # 0
          /\ Len(calls) <= Cardinality(BingSteps) + 1)
    /\ [][(Len(steps') = Len(steps) + 1 /\ steps'[Len(steps')].tool \notin ToolNames) =>
            /\ pc = "plan" /\ pc' = "plan"
            /\ calls' = calls
            /\ iterations' = iterations + 1
            /\ outcome' = "Running"
            /\ i' = i]_vars

C7_Witness ==
    /\ pc = "plan"
    /\ Len(steps) = 2
    /\ steps[2].tool = OtherTool
    /\ steps[2].obs = InvalidToolObs
    /\ Len(calls) = 1

\* C8 (as stated): a "$" of the response appears unchanged in the rendered
\* output.
C8_DollarPreserved ==
    pc = "printed" => CountDollar(rendered) = CountDollar(response)

\* C8 (amended): printmd replaces every "$" of the response by "USD " and
\* leaves everything else (the citations included) as it is, so the rendered
\* output contains no "$".
C8_DollarReplaced ==
    pc = "printed" =>
        /\ CountDollar(rendered) = 0
        /\ Len(rendered) = Len(response) + 3 * CountDollar(response)
        /\ SelectSeq(rendered, IsCite) = SelectSeq(response, IsCite)
        /\ (CountDollar(response) = 0 => rendered = response)

C8_Witness ==
    /\ pc = "printed"
    /\ CountDollar(response) = 1
    /\ Len(rendered) = Len(response) + 3

ErrorTexts == { StrOf(e) : e \in Exceptions }

\* C9 (as stated): the caller can tell a Failed outcome from a Done answer:
\* what is surfaced for a Failed session is an error, what is surfaced for a
\* Done session is not.
C9_FailedDistinguishable ==
    Finished => (outcome = "Failed" <=> response \in ErrorTexts)

\* C9 (amended): a Failed session surfaces exactly the text of the exception
\* of the last attempt in `response`, which is displayed like an answer; no
\* answer is synthesized for it.
C9_LastErrorSurfaced ==
    outcome = "Failed" =>
        /\ errs[N - 1] \in Exceptions
        /\ response = StrOf(errs[N - 1])
        /\ (pc = "printed" => rendered = StrOf(errs[N - 1]))

C9_Witness ==
    /\ outcome = "Failed"
    /\ pc = "printed"
    /\ errs[0] = "ParseErr"
    /\ errs[N - 1] = "SearchErr"
    /\ Len(steps) > 0

\* C10: whatever the model and the backend answer, every session eventually
\* is Done or Failed.
C10_Termination == <>Finished

C10_Witness ==
    /\ N = 3
    /\ outcome = "Failed"
    /\ errs[0] = "ParseErr"
    /\ errs[1] = "SearchErr"
    /\ errs[2] = "ModelErr"
    /\ iterations = MaxIterations - 1

RECURSIVE Dedup(_, _)
\* the links of s that are not in seen, each once, in order of first appearance
Dedup(s, seen) ==
    IF s = <<>> THEN <<>>
    ELSE IF Head(s) \in seen THEN Dedup(Tail(s), seen)
         ELSE <<Head(s)>> \o Dedup(Tail(s), seen \cup {Head(s)})

RECURSIVE AllLinks(_)
\* the links of all Observations of a scratchpad, in order
AllLinks(log) ==
    IF log = <<>> THEN <<>> ELSE Head(log).obs.links \o AllLinks(Tail(log))

\* the distinct links of the run's scratchpad in first-appearance order
DistinctLinks == Dedup(AllLinks(steps), {})

Cites(s) == SelectSeq(s, IsCite)

IsPrefix(a, b) == Len(a) <= Len(b) /\ SubSeq(b, 1, Len(a)) = a

\* C12 (as stated): within a run every Action step, a failed search
\* included, appends exactly one Observation entry, and every earlier
\* scratchpad is a prefix of every later one.
C12_EveryActionAppends ==
    [][/\ (pc # "for" => IsPrefix(steps, steps'))
       /\ (Len(calls') = Len(calls) + 1 => Len(steps') = Len(steps) + 1)
       /\ (iterations' = iterations + 1 => Len(steps') = Len(steps) + 1)]_vars

\* C12 (amended): within a run the scratchpad is an append-only log: every
\* Action step that completes (a search executed, a repeated search executed
\* again, an unknown tool) appends exactly one Observation entry at the end,
\* a failed search appends none (it ends the run), and no step of the run
\* removes, reorders or changes an entry, so each earlier scratchpad of the
\* run is a prefix of every later one.
C12_AppendOnly ==
    [][/\ (pc # "for" => IsPrefix(steps, steps'))
       /\ ((pc = "tool" /\ pc' = "plan") \/ (pc = "plan" /\ pc' = "plan")) =>
             /\ Len(steps') = Len(steps) + 1
             /\ iterations' = iterations + 1
             /\ SubSeq(steps', 1, Len(steps)) = steps
       /\ (iterations' = iterations + 1 => Len(steps') = Len(steps) + 1)
       /\ ((pc = "tool" /\ pc' # "plan") => steps' = steps)
       /\ (pc \in {"exited", "printed"} => steps' = steps)]_vars

C12_Witness ==
    /\ pc = "plan"
    /\ Len(steps) = 3
    /\ steps[1].tool = "@bing" /\ steps[1].input = 1
    /\ steps[2].tool = OtherTool
    /\ steps[3].tool = "@bing" /\ steps[3].input = 2

\* the state of the session in the terms of the state machine
SessionState ==
    CASE outcome = "Done"   -> "Done"
      [] outcome = "Failed" -> "Failed"
      [] pc = "tool"        -> "Searching"
      [] OTHER              -> "Thinking"

StatedTransitions ==
    { <<"Thinking", "Searching">>, <<"Searching", "Thinking">>,
      <<"Thinking", "Done">>, <<"Thinking", "Failed">> }

NoCallIssued == llmCalls' = llmCalls /\ calls' = calls /\ pending' = pending

\* C13 (as stated): the session changes state only along Thinking ->
\* Searching -> Thinking, Thinking -> (Answering ->) Done and Thinking ->
\* Failed, and once it is Done or Failed no model request or search call is
\* issued.
C13_StatedTransitionsOnly ==
    [][/\ (SessionState' # SessionState => <<SessionState, SessionState'>> \in StatedTransitions)
       /\ (Finished => NoCallIssued)]_vars

\* C13 (amended): as stated, with one more transition: Searching -> Failed,
\* taken when the search raises in the last attempt of the retry loop (a
\* search that raises in an earlier attempt leads back to Thinking, in a new
\* run).  Done and Failed are absorbing and no call is issued after them.
C13_Transitions ==
    [][/\ (SessionState' # SessionState =>
              <<SessionState, SessionState'>> \in StatedTransitions \cup {<<"Searching", "Failed">>})
       /\ (Finished => /\ NoCallIssued
                       /\ outcome' = outcome
                       /\ response' = response
                       /\ steps' = steps
                       /\ pc' \in {"exited", "printed"})
       /\ (SessionState' = "Done" /\ SessionState # "Done" => pc = "plan")
       /\ (SessionState' = "Searching" /\ SessionState # "Searching" =>
              pc = "plan" /\ llmCalls' = llmCalls + 1)]_vars

C13_Witness ==
    /\ outcome = "Failed"
    /\ pc = "printed"
    /\ errs[N - 1] = "SearchErr"
    /\ Len(calls) = 1
    /\ llmCalls = 1

\* C14: within a run at most one external call is outstanding: a search is
\* outstanding exactly while the executor waits in the tool call; it is
\* started only by the step that received the model's answer, no model
\* request is made while it is outstanding, and a model request is made only
\* when the Observation of every earlier request of the run has been
\* appended.
C14_OneCallAtATime ==
    /\ []((pending # NoAction) <=> (pc = "tool"))
    /\ [][/\ (llmCalls' = llmCalls + 1 =>
                 /\ pc = "plan"
                 /\ pending = NoAction
                 /\ Len(steps) = llmCalls
                 /\ Len(calls') = Len(calls))
          /\ (Len(calls') = Len(calls) + 1 =>
                 /\ pc = "tool"
                 /\ pending # NoAction
                 /\ pending' = NoAction
                 /\ llmCalls' = llmCalls
                 /\ llmCalls = Len(steps) + 1)
          /\ ((pending' # NoAction /\ pending = NoAction) => llmCalls' = llmCalls + 1)]_vars

C14_Witness ==
    /\ pc = "tool"
    /\ pending = [tool |-> "@bing", input |-> 2]
    /\ Len(steps) = 1
    /\ Len(calls) = 1
    /\ llmCalls = 2

\* position of the open "Thought:" cue that follows the question
CuePos(text, log) == Len(text) - 4 * Len(log)

\* C15: the prompt of every model request is the template filled with the
\* question and the run's scratchpad: it lists every registered tool by name
\* and description, and it ends with the question, an open "Thought:" cue
\* and then the scratchpad entries in their chronological order.
C15_PromptAssembly ==
    [][llmCalls' = llmCalls + 1 =>
        LET text == prompt'
            base == CuePos(prompt', steps)
        IN  /\ base >= 2
            /\ text[base] = Line("Thought", "", 0, NoObs)
            /\ text[base - 1] = Line("Question", QUESTION, 0, NoObs)
            /\ \A t \in 1..Len(Tools) :
                  \E x \in 1..(base - 2) :
                      /\ text[x].tag = "tool"
                      /\ text[x].s = Tools[t].name
                      /\ text[x].d = Tools[t].description
            /\ \A name \in ToolNames :
                  \E x \in 1..(base - 2) : text[x].tag = "tool" /\ text[x].s = name
            /\ \A j \in 1..Len(steps) :
                  LET at == base + 4 * (j - 1)
                  IN  /\ text[at + 1].tag = "Action" /\ text[at + 1].s = steps[j].tool
                      /\ text[at + 2].tag = "Action Input" /\ text[at + 2].n = steps[j].input
                      /\ text[at + 3].tag = "Observation" /\ text[at + 3].obs = steps[j].obs
                      /\ text[at + 4].tag = "Thought"
            /\ \A x \in 1..(base - 1) : text[x].tag \notin {"Action", "Observation"}]_vars

C15_Witness ==
    /\ llmCalls = 3
    /\ Len(steps) = 2
    /\ steps[1].tool = "@bing"
    /\ steps[2].tool = OtherTool
    /\ pc = "exited"
    /\ Len(prompt) = CuePos(prompt, steps) + 8
    /\ prompt[Len(prompt) - 3].s = OtherTool

\* agent runs started so far by the retry loop
RunsStarted == IF pc = "for" THEN i ELSE i + 1

\* C16: the retry loop with budget N starts at most N runs and none after
\* the first run that returns; every exception of a run, whatever its cause,
\* is caught and handled in the same way (response = str(e), next attempt or
\* end of the loop); on exit response is bound to the answer of the run that
\* returned, or else to the text of the exception of the N-th run.
C16_RetryLoop ==
    /\ [](/\ RunsStarted <= N
          /\ (Finished => response # Unbound)
          /\ (outcome = "Done" =>
                 /\ errs[i] = "none"
                 /\ RunsStarted = i + 1
                 /\ response \in AnswerTexts \cup {StoppedMsg})
          /\ (outcome = "Failed" =>
                 /\ RunsStarted = N
                 /\ errs[N - 1] \in Exceptions
                 /\ response = StrOf(errs[N - 1])))
    /\ [][/\ (errs' # errs =>
                 \E e \in Exceptions :
                     /\ errs[i] = "none"
                     /\ errs' = [errs EXCEPT ![i] = e]
                     /\ response' = StrOf(e)
                     /\ IF i + 1 < N
                          THEN pc' = "for" /\ i' = i + 1 /\ outcome' = "Running"
                          ELSE pc' = "exited" /\ i' = i /\ outcome' = "Failed")
          /\ (Finished => (pc' \in {"exited", "printed"} /\ i' = i /\ errs' = errs))
          /\ ((outcome = "Running" /\ outcome' = "Done") =>
                 (pc' = "exited" /\ i' = i /\ errs' = errs))]_vars

C16_Witness ==
    /\ N = 2
    /\ outcome = "Failed"
    /\ pc = "exited"
    /\ errs[0] = "ModelErr"
    /\ errs[1] = "SearchErr"
    /\ response = StrOf("SearchErr")

HasObservation(text) == \E x \in 1..Len(text) : text[x].tag = "Observation"

\* C17: every attempt of the retry loop starts a run in the initial state
\* (Thinking, empty scratchpad, iteration count 0, no call made), and the
\* first model request of the attempt gets a prompt with an empty
\* scratchpad: nothing of an earlier attempt is visible to it.
C17_FreshAttempt ==
    /\ [][pc = "for" =>
            /\ pc' = "plan"
            /\ steps' = <<>>
            /\ iterations' = 0
            /\ calls' = <<>>
            /\ llmCalls' = 0
            /\ pending' = NoAction
            /\ i' = i]_vars
    /\ [][(llmCalls' = llmCalls + 1 /\ llmCalls = 0) =>
            /\ steps = <<>>
            /\ ~HasObservation(prompt')
            /\ prompt'[Len(prompt')].tag = "Thought"
            /\ prompt'[Len(prompt') - 1].tag = "Question"]_vars
    /\ [](/\ Len(steps) = iterations
          /\ Len(calls) <= llmCalls
          /\ \A j \in BingSteps : \E c \in 1..Len(calls) : calls[c].query = steps[j].input)

C17_Witness ==
    /\ i = 1
    /\ pc = "tool"
    /\ steps = <<>>
    /\ iterations = 0
    /\ llmCalls = 1
    /\ calls = <<>>
    /\ errs[0] = "SearchErr"
    /\ ~HasObservation(prompt)

\* C18: an asynchronous invocation of the tool raises NotImplementedError
\* for every query and makes no backend call; every backend call comes from
\* a synchronous invocation, for the query given and with the tool's k as
\* the number of results.
C18_AsyncUnsupported ==
    /\ [](/\ \A c \in 1..Len(calls) : calls[c].num_results = k /\ calls[c].query \in ToolQueries
          /\ (toolResult.via = "_arun" =>
                 toolResult.raises = "NotImplementedError" /\ toolResult.obs = NoObs)
          /\ (toolResult.via = "_run" =>
                 /\ toolResult.raises = ""
                 /\ calls # <<>>
                 /\ calls[Len(calls)] = [query |-> toolResult.query, num_results |-> k]))
    /\ [][/\ (toolResult'.via = "_arun" => calls' = calls)
          /\ (calls' # calls =>
                 /\ toolResult'.via = "_run"
                 /\ calls' = Append(calls, [query |-> toolResult'.query, num_results |-> k]))]_vars

C18_Witness ==
    /\ toolResult.via = "_arun"
    /\ toolResult.raises = "NotImplementedError"
    /\ toolResult.query = 2
    /\ Len(calls) = 1
    /\ calls[1].query = 2

====
